---- MODULE Spec2Model ----
(***************************************************************************)
(* The memory bus of the Game Boy emulator (src/gb/src/internal/memory.rs): *)
(* address decoding, the MBC1/MBC3 bank controllers, the boot-ROM overlay,  *)
(* the OAM DMA burst and the interrupt latch.                               *)
(*                                                                          *)
(* OAM is a function on 0..0x9F.  The larger byte buffers (wram, hram, vram, *)
(* sram) are kept sparse: a function from the offsets that hold a non-zero  *)
(* byte to that byte; every other offset below the buffer's length reads 0, *)
(* the value the code fills them with.                                      *)
(* The ROM image and the boot image are immutable once loaded and are kept  *)
(* as descriptors whose bytes are computed by CartByte / BootByte.          *)
(***************************************************************************)
EXTENDS Integers, Sequences, FiniteSets, TLC

\* ------------------------------------------------------------ arithmetic

\* `&` and `|` bit by bit
RECURSIVE AndBits(_, _)
AndBits(x, y) ==
    IF x = 0 \/ y = 0 THEN 0
    ELSE ((x % 2) * (y % 2)) + 2 * AndBits(x \div 2, y \div 2)

RECURSIVE OrBits(_, _)
OrBits(x, y) ==
    IF x = 0 THEN y
    ELSE IF y = 0 THEN x
    ELSE (IF x % 2 = 1 \/ y % 2 = 1 THEN 1 ELSE 0) + 2 * OrBits(x \div 2, y \div 2)

\* the same on two hexadecimal digits, tabulated
NibbleAnd == [a \in 0..15 |-> [b \in 0..15 |-> AndBits(a, b)]]
NibbleOr == [a \in 0..15 |-> [b \in 0..15 |-> OrBits(a, b)]]

\* the operands 0x1, 0x3, 0x7, .. whose `&` is a remainder
LowMasks == {2 ^ e - 1 : e \in 1..24}

\* u8/u16/u32 `&`, a hexadecimal digit at a time
RECURSIVE BitAnd(_, _)
BitAnd(x, y) ==
    IF x = 0 \/ y = 0 THEN 0
    ELSE IF y \in LowMasks THEN x % (y + 1)
    ELSE NibbleAnd[x % 16][y % 16] + 16 * BitAnd(x \div 16, y \div 16)

\* u8/u16/u32 `|`, a hexadecimal digit at a time
RECURSIVE BitOr(_, _)
BitOr(x, y) ==
    IF x = 0 THEN y
    ELSE IF y = 0 THEN x
    ELSE NibbleOr[x % 16][y % 16] + 16 * BitOr(x \div 16, y \div 16)

\* `x << n` on a u32 (no operand of the code reaches bit 32)
Shl(x, n) == x * (2 ^ n)

\* `(x >> n) & 0x1`
Bit(x, n) == (x \div (2 ^ n)) % 2

\* the outcome of a panic!/unreachable!/index out of bounds inside a read
PANIC == -1

\* ------------------------------------------------------------ byte buffers

Zeroed == [j \in {} |-> 0]

Get(buf, i) == IF i \in DOMAIN buf THEN buf[i] ELSE 0

Put(buf, i, v) ==
    IF v = 0 THEN [j \in (DOMAIN buf) \ {i} |-> buf[j]]
    ELSE [j \in (DOMAIN buf) \cup {i} |-> IF j = i THEN v ELSE buf[j]]

\* ------------------------------------------------------------ constants

MBC_TYPE == \h0147
RAM_SIZE == \h0149

NINTENDO_LOGO ==
    << \hCE, \hED, \h66, \h66, \hCC, \h0D, \h00, \h0B, \h03, \h73, \h00, \h83,
       \h00, \h0C, \h00, \h0D, \h00, \h08, \h11, \h1F, \h88, \h89, \h00, \h0E,
       \hDC, \hCC, \h6E, \hE6, \hDD, \hDD, \hD9, \h99, \hBB, \hBB, \h67, \h63,
       \h6E, \h0E, \hEC, \hCC, \hDD, \hDC, \h99, \h9F, \hBB, \hB9, \h33, \h3E >>

\* ------------------------------------------------------------ input images

\* the scanlines ppu.update() is let reach
LyVals == {0, 1}

\* The filler byte of a cartridge image at file offset i: never 0x00 or 0xFF,
\* and different in every 16 KiB bank at the same offset within the bank.
RomFill(i) == 1 + ((i + 37 * (i \div \h4000)) % 251)

\* Byte i of the cartridge file c = [len, mbc, ram, logo]: the header bytes
\* 0x0147 and 0x0149, a copy of the Nintendo logo at file offset c.logo
\* (none when c.logo < 0), filler elsewhere.
CartByte(c, i) ==
    IF i = MBC_TYPE THEN c.mbc
    ELSE IF i = RAM_SIZE THEN c.ram
    ELSE IF c.logo >= 0 /\ i >= c.logo /\ i < c.logo + Len(NINTENDO_LOGO)
         THEN NINTENDO_LOGO[i - c.logo + 1]
    ELSE RomFill(i)

NoCart == [len |-> 0, mbc |-> 0, ram |-> 0, logo |-> -1]

\* Byte i of the 256-byte boot image handed to mount_bootrom.
BootByte(i) == (3 * i + \h31) % 256

VARIABLES
    pc,                   \* "new": constructed; "run": cartridge loaded; "panic"
    rom_chip,             \* [file, len]: the Vec<u8> rom_chip
    boot_rom,             \* "zero" ([0; 0x100]) or "image" (BootByte)
    sram,                 \* [len, bytes]: the Vec<u8> sram
    wram, hram,
    mbc_ram_enabled, boot_rom_mounted,
    memory_bank, banking_mode, rom_bank_number, ram_rom_bank_number,
    reg_IE, reg_IF,       \* the fields IE and IF
    keypress, joyp,
    vram, oam,            \* ppu.vram, ppu.oam
    ppu,                  \* [stat, ly, lyc, vblank_irq_triggered, stat_irq_triggered, regs]
    timer,                \* [tima_irq, regs]
    last_ctl,             \* history: [r] the last value written to the 8 KiB control
                          \* range r = 0..3, [4 + r] 1 once that range was written
    op,                   \* history: the last operation [kind, addr, val]
    ret,                  \* history: what the last operation returned (0 unless a read)
    bess_buffer_offsets,  \* the Vec<u8> bess_buffer_offsets
    buffers,              \* [len, bytes]: the Vec<u8> aggregate_buffers returned last
    bess_block,           \* the bytes of the MBC control block still to replay
    origin                \* history: << >>, or <<r>> with r the cartridge and the MBC
                          \* registers of the instance the block was made from

cart_vars == <<rom_chip, boot_rom>>
mbc_vars  == <<mbc_ram_enabled, memory_bank, banking_mode, rom_bank_number,
               ram_rom_bank_number>>
ram_vars  == <<sram, wram, hram, vram, oam>>
io_vars   == <<reg_IE, reg_IF, keypress, joyp, ppu, timer>>
bus_vars  == <<rom_chip, boot_rom, sram, wram, hram, mbc_ram_enabled,
               boot_rom_mounted, memory_bank, banking_mode, rom_bank_number,
               ram_rom_bank_number, reg_IE, reg_IF, keypress, joyp, vram, oam,
               ppu, timer>>
save_vars == <<bess_buffer_offsets, buffers, bess_block, origin>>
vars      == <<pc, bus_vars, last_ctl, op, ret, save_vars>>

NoOp == [kind |-> "none", addr |-> 0, val |-> 0]

\* Memory::default(); the PPU starts with no interrupt edge pending
Init ==
    /\ pc = "new"
    /\ rom_chip = [file |-> NoCart, len |-> 0]
    /\ boot_rom = "zero"
    /\ sram = [len |-> 0, bytes |-> Zeroed]
    /\ wram = Zeroed
    /\ hram = Zeroed
    /\ mbc_ram_enabled = FALSE
    /\ boot_rom_mounted = FALSE
    /\ memory_bank = "MBCNONE"
    /\ banking_mode = "SIMPLE"
    /\ rom_bank_number = 0
    /\ ram_rom_bank_number = 0
    /\ reg_IE = 0
    /\ reg_IF = 0
    /\ keypress = -1
    /\ joyp = 0
    /\ vram = Zeroed
    /\ oam = [i \in 0..(\hA0 - 1) |-> 0]
    /\ ppu = [stat |-> 0, ly |-> 0, lyc |-> 0, vblank_irq_triggered |-> TRUE,
              stat_irq_triggered |-> TRUE, regs |-> Zeroed]
    /\ timer = [tima_irq |-> 0, regs |-> Zeroed]
    /\ last_ctl = [r \in 0..7 |-> 0]
    /\ op = NoOp
    /\ ret = 0
    /\ bess_buffer_offsets = << >>
    /\ buffers = [len |-> 0, bytes |-> Zeroed]
    /\ bess_block = << >>
    /\ origin = << >>

\* ------------------------------------------------------------ reads

\* self.rom_chip[i]
rom_at(i) ==
    IF i < 0 \/ i >= rom_chip.len THEN PANIC
    ELSE IF i < rom_chip.file.len THEN CartByte(rom_chip.file, i)
    ELSE 0

\* self.sram[i]
sram_at(i) == IF i < 0 \/ i >= sram.len THEN PANIC ELSE Get(sram.bytes, i)

\* self.boot_rom[i]
boot_rom_at(i) == IF boot_rom = "image" THEN BootByte(i) ELSE 0

\* mutant: the SRAM window always addresses bank 0
sram_index_bank0(addr) == BitAnd(addr, \h1FFF)

\* the SRAM index of the three MBC SRAM arms: offset + (addr & 0x1FFF), the
\* offset being a u16
sram_index(addr) ==
    LET offset == IF banking_mode = "ADVANCED" /\ rom_at(RAM_SIZE) = \h03
                  THEN (ram_rom_bank_number * \h2000) % \h10000
                  ELSE 0
    IN  offset + BitAnd(addr, \h1FFF)

\* mutant: the low window follows `upper` in both banking modes
mbc1_read_low_always_upper(addr) ==
    rom_at(BitAnd(BitOr(Shl(ram_rom_bank_number, 19), BitAnd(addr, \h3FFF)),
                  rom_chip.len - 1))

mbc1_read_low(addr) ==
    LET offset == IF banking_mode = "ADVANCED"
                  THEN BitOr(Shl(ram_rom_bank_number, 19), BitAnd(addr, \h3FFF))
                  ELSE addr
    IN  rom_at(BitAnd(offset, rom_chip.len - 1))

\* mutant: bank 0 is not translated to bank 1
mbc1_read_high_no_remap(addr) ==
    rom_at(BitAnd(BitOr(BitOr(Shl(ram_rom_bank_number, 19),
                              Shl(rom_bank_number, 14)),
                        BitAnd(addr, \h3FFF)),
                  rom_chip.len - 1))

mbc1_read_high(addr) ==
    LET translated_bank_number ==
            IF rom_bank_number = \h00 THEN \h01 ELSE rom_bank_number
        offset == BitOr(BitOr(Shl(ram_rom_bank_number, 19),
                              Shl(translated_bank_number, 14)),
                        BitAnd(addr, \h3FFF))
    IN  rom_at(BitAnd(offset, rom_chip.len - 1))

mbc1_read_sram(addr) ==
    IF mbc_ram_enabled THEN sram_at(sram_index(addr)) ELSE \hFF

mbc1_read(addr) ==
    IF addr <= \h3FFF THEN mbc1_read_low(addr)
    ELSE IF addr <= \h7FFF THEN mbc1_read_high(addr)
    ELSE IF addr >= \hA000 /\ addr <= \hBFFF THEN mbc1_read_sram(addr)
    ELSE PANIC

mbc3_read_sram(addr) ==
    IF ram_rom_bank_number > \h03 THEN PANIC
    ELSE IF mbc_ram_enabled THEN sram_at(sram_index(addr))
    ELSE \hFF

mbc3_read(addr) ==
    IF addr <= \h3FFF THEN rom_at(BitAnd(addr, \h3FFF))
    ELSE IF addr <= \h7FFF
         THEN LET offset == BitOr(Shl(rom_bank_number, 14), BitAnd(addr, \h3FFF))
              IN  rom_at(BitAnd(offset, rom_chip.len - 1))
    ELSE IF addr >= \hA000 /\ addr <= \hBFFF THEN mbc3_read_sram(addr)
    ELSE PANIC

\* the arms 0x0000..=0x7FFF and 0xA000..=0xBFFF of read
cart_read(addr) ==
    IF memory_bank = "MBC1" THEN mbc1_read(addr)
    ELSE IF memory_bank = "MBC3" THEN mbc3_read(addr)
    ELSE rom_at(addr)

\* mutant: the two selector bits are taken for each other
joypad_read_rows_swapped ==
    IF keypress # -1
    THEN IF Bit(joyp, 5) = 0 /\ Bit(joyp, 4) = 1
         THEN CASE keypress = 1 -> \hB
                [] keypress = 2 -> \hD
                [] keypress = 3 -> \h7
                [] keypress = 4 -> \hE
                [] OTHER -> \hF
         ELSE IF Bit(joyp, 4) = 0 /\ Bit(joyp, 5) = 1
         THEN CASE keypress = 5 -> \hE
                [] keypress = 6 -> \hD
                [] keypress = 7 -> \h7
                [] keypress = 8 -> \hB
                [] OTHER -> \hF
         ELSE \hF
    ELSE \hF

\* the arm 0xFF00 of read
joypad_read ==
    IF keypress # -1
    THEN IF Bit(joyp, 4) = 0 /\ Bit(joyp, 5) = 1
         THEN CASE keypress = 1 -> \hB      \* 0xF & !(1 << 2)
                [] keypress = 2 -> \hD      \* 0xF & !(1 << 1)
                [] keypress = 3 -> \h7      \* 0xF & !(1 << 3)
                [] keypress = 4 -> \hE      \* 0xF & !(1 << 0)
                [] OTHER -> \hF
         ELSE IF Bit(joyp, 5) = 0 /\ Bit(joyp, 4) = 1
         THEN CASE keypress = 5 -> \hE
                [] keypress = 6 -> \hD
                [] keypress = 7 -> \h7
                [] keypress = 8 -> \hB
                [] OTHER -> \hF
         ELSE \hF
    ELSE \hF

\* PPU and Timer accessors (ppu.rs and timer.rs): plain stores
ppu_read_oam(oam_now, off) == oam_now[off]
ppu_read_vram(off) == Get(vram, off)
ppu_read_registers(addr) ==
    IF addr = \hFF41 THEN ppu.stat
    ELSE IF addr = \hFF44 THEN ppu.ly
    ELSE IF addr = \hFF45 THEN ppu.lyc
    ELSE Get(ppu.regs, addr)
timer_read_registers(addr) == Get(timer.regs, addr)

\* mutant: the overlay stops one byte short
boot_overlay_short(mounted, addr) == mounted /\ addr < \hFF

\* `self.boot_rom_mounted && addr <= 0xFF`
boot_overlay(mounted, addr) == mounted /\ addr <= \hFF

\* Memory::read with the overlay flag and the OAM contents as parameters
\* (oam_dma_transfer reads while it fills OAM)
read_in(mounted, oam_now, addr) ==
    IF boot_overlay(mounted, addr) THEN boot_rom_at(addr)
    ELSE IF addr <= \h7FFF THEN cart_read(addr)
    ELSE IF addr >= \hA000 /\ addr <= \hBFFF THEN cart_read(addr)
    ELSE IF addr >= \h8000 /\ addr <= \h9FFF THEN ppu_read_vram(addr - \h8000)
    ELSE IF addr >= \hC000 /\ addr <= \hDFFF THEN Get(wram, addr - \hC000)
    ELSE IF addr >= \hFE00 /\ addr <= \hFE9F THEN ppu_read_oam(oam_now, addr - \hFE00)
    ELSE IF addr = \hFF00 THEN joypad_read
    ELSE IF addr = \hFF01 THEN \hFF
    ELSE IF addr >= \hFF04 /\ addr <= \hFF07 THEN timer_read_registers(addr)
    ELSE IF addr = \hFF0F THEN reg_IF
    ELSE IF addr >= \hFF40 /\ addr <= \hFF4B THEN ppu_read_registers(addr)
    ELSE IF addr = \hFF50 THEN (IF mounted THEN 1 ELSE 0)
    ELSE IF addr >= \hFF80 /\ addr <= \hFFFE THEN Get(hram, addr - \hFF80)
    ELSE IF addr = \hFFFF THEN reg_IE
    ELSE \h00

\* Memory::read
read(addr) == read_in(boot_rom_mounted, oam, addr)

\* ------------------------------------------------------------ load

\* pub fn mount_bootrom: called by the host before the cartridge is loaded
mount_bootrom ==
    /\ pc = "new"
    /\ boot_rom' = "image"
    /\ boot_rom_mounted' = TRUE
    /\ op' = [kind |-> "mount_bootrom", addr |-> 0, val |-> 0]
    /\ ret' = 0
    /\ UNCHANGED <<pc, rom_chip, sram, wram, hram, mbc_ram_enabled, memory_bank,
                   banking_mode, rom_bank_number, ram_rom_bank_number, reg_IE,
                   reg_IF, keypress, joyp, vram, oam, ppu, timer, last_ctl, save_vars>>

\* self.sram.resize(n, 0x00) by header byte 0x0149; no resize for the rest
sram_resized(b) ==
    LET n == CASE b = \h02 -> \h2000
               [] b = \h03 -> \h2000 * 4
               [] b = \h04 -> \h2000 * 16
               [] b = \h05 -> \h2000 * 8
               [] OTHER -> sram.len
    IN  [len |-> n,
         bytes |-> [j \in {k \in DOMAIN sram.bytes : k < n} |-> sram.bytes[j]]]

\* one iteration of the multicart scan at window address i, on the state
\* s = [ptr, out]: ptr is logo_ptr, out is "loop" while the loop runs,
\* "mbc1m" once the panic! is reached, "break" once the loop is left
logo_step(bytes, s, i) ==
    IF s.ptr < 0 THEN [s EXCEPT !.out = "mbc1m"]
    ELSE LET bank_ten_ptr == BitOr(Shl(\h10, 14), BitAnd(i, \h3FFF))
         IN  IF bank_ten_ptr >= bytes.len THEN [s EXCEPT !.out = "break"]
             ELSE IF CartByte(bytes, bank_ten_ptr) = NINTENDO_LOGO[s.ptr + 1]
                  THEN [s EXCEPT !.ptr = @ - 1]
                  ELSE [s EXCEPT !.ptr = Len(NINTENDO_LOGO) - 1]

\* the iterations i = hi, hi-1, .., lo of `for i in (0x4000..0x8000).rev()`
RECURSIVE logo_scan(_, _, _, _)
logo_scan(bytes, s, hi, lo) ==
    IF s.out # "loop" THEN s
    ELSE IF hi = lo THEN logo_step(bytes, s, hi)
    ELSE LET mid == (hi + lo + 1) \div 2
         IN  logo_scan(bytes, logo_scan(bytes, s, hi, mid), mid - 1, lo)

\* whether load_cartridge takes an MBC1 image for an MBC1 multicart
is_mbc1m(bytes) ==
    logo_scan(bytes, [ptr |-> Len(NINTENDO_LOGO) - 1, out |-> "loop"],
              \h7FFF, \h4000).out = "mbc1m"

\* pub fn load_cartridge
load_cartridge(bytes) ==
    LET mbc_type == CartByte(bytes, MBC_TYPE)
    IN
    /\ pc = "new"
    /\ op' = [kind |-> "load_cartridge", addr |-> 0, val |-> 0]
    /\ ret' = 0
    /\ sram' = sram_resized(CartByte(bytes, RAM_SIZE))
    /\ IF mbc_type = \h00
       THEN /\ memory_bank' = "MBCNONE"
            /\ rom_chip' = [file |-> bytes, len |-> \h10000]
            /\ pc' = "run"
       ELSE IF mbc_type >= \h01 /\ mbc_type <= \h03
       THEN /\ rom_chip' = [file |-> bytes, len |-> bytes.len]
            /\ IF is_mbc1m(bytes)
               THEN memory_bank' = "MBC1M" /\ pc' = "panic"
               ELSE memory_bank' = "MBC1" /\ pc' = "run"
       ELSE IF mbc_type >= \h0F /\ mbc_type <= \h13
       THEN /\ memory_bank' = "MBC3"
            /\ rom_chip' = [file |-> bytes, len |-> bytes.len]
            /\ pc' = "run"
       ELSE /\ rom_chip' = [file |-> bytes, len |-> bytes.len]
            /\ pc' = "panic"
            /\ UNCHANGED memory_bank
    /\ UNCHANGED <<boot_rom, wram, hram, mbc_ram_enabled, boot_rom_mounted,
                   banking_mode, rom_bank_number, ram_rom_bank_number, reg_IE,
                   reg_IF, keypress, joyp, vram, oam, ppu, timer, last_ctl, save_vars>>

\* ------------------------------------------------------------ writes

\* mutant: the write ignores the RAM gate
mbc_write_sram_ungated(addr, val) ==
    /\ sram' = [sram EXCEPT !.bytes = Put(@, sram_index(addr), val)]
    /\ pc' = "run"

\* the arm 0xA000..=0xBFFF of mbc1_write and of mbc3_write
mbc_write_sram(addr, val) ==
    IF mbc_ram_enabled
    THEN IF sram_at(sram_index(addr)) = PANIC
         THEN pc' = "panic" /\ UNCHANGED sram
         ELSE /\ sram' = [sram EXCEPT !.bytes = Put(@, sram_index(addr), val)]
              /\ pc' = "run"
    ELSE pc' = "run" /\ UNCHANGED sram

mbc1_write(addr, val) ==
    /\ UNCHANGED <<rom_chip, boot_rom, wram, hram, boot_rom_mounted, memory_bank,
                   reg_IE, reg_IF, keypress, joyp, vram, oam, ppu, timer>>
    /\ IF addr <= \h1FFF
       THEN /\ mbc_ram_enabled' = (BitAnd(val, \hF) = \hA)
            /\ pc' = "run"
            /\ UNCHANGED <<rom_bank_number, ram_rom_bank_number, banking_mode, sram>>
       ELSE IF addr <= \h3FFF
       THEN /\ rom_bank_number' = BitAnd(val, \h1F)
            /\ pc' = "run"
            /\ UNCHANGED <<mbc_ram_enabled, ram_rom_bank_number, banking_mode, sram>>
       ELSE IF addr <= \h5FFF
       THEN /\ ram_rom_bank_number' = BitAnd(val, \h3)
            /\ pc' = "run"
            /\ UNCHANGED <<mbc_ram_enabled, rom_bank_number, banking_mode, sram>>
       ELSE IF addr <= \h7FFF
       THEN /\ banking_mode' = IF BitAnd(val, \h1) = 1 THEN "ADVANCED" ELSE "SIMPLE"
            /\ pc' = "run"
            /\ UNCHANGED <<mbc_ram_enabled, rom_bank_number, ram_rom_bank_number, sram>>
       ELSE IF addr >= \hA000 /\ addr <= \hBFFF
       THEN /\ mbc_write_sram(addr, val)
            /\ UNCHANGED <<mbc_ram_enabled, rom_bank_number, ram_rom_bank_number,
                           banking_mode>>
       ELSE /\ pc' = "panic"
            /\ UNCHANGED <<mbc_ram_enabled, rom_bank_number, ram_rom_bank_number,
                           banking_mode, sram>>

\* mutant: the bank register keeps five bits, as on MBC1
mbc3_rom_bank_5bit(val) == IF val = \h00 THEN \h01 ELSE BitAnd(val, \h1F)

\* the arm 0x2000..=0x3FFF of mbc3_write: rom_bank_number afterwards
mbc3_rom_bank(val) == IF val = \h00 THEN \h01 ELSE BitAnd(val, \h7F)

\* mutant: the mode register follows bit 0 of the value, as on MBC1
mbc3_mode_as_mbc1(val) == IF BitAnd(val, \h1) = 1 THEN "ADVANCED" ELSE "SIMPLE"

\* the arm 0x6000..=0x7FFF of mbc3_write, `()`: banking_mode afterwards
mbc3_mode(val) == banking_mode

mbc3_write(addr, val) ==
    /\ UNCHANGED <<rom_chip, boot_rom, wram, hram, boot_rom_mounted, memory_bank,
                   reg_IE, reg_IF, keypress, joyp, vram, oam, ppu, timer>>
    /\ banking_mode' = IF addr >= \h6000 /\ addr <= \h7FFF
                       THEN mbc3_mode(val) ELSE banking_mode
    /\ IF addr <= \h1FFF
       THEN /\ mbc_ram_enabled' = (IF val = \h0A THEN TRUE
                                   ELSE IF val = \h00 THEN FALSE
                                   ELSE mbc_ram_enabled)
            /\ pc' = "run"
            /\ UNCHANGED <<rom_bank_number, ram_rom_bank_number, sram>>
       ELSE IF addr <= \h3FFF
       THEN /\ rom_bank_number' = mbc3_rom_bank(val)
            /\ pc' = "run"
            /\ UNCHANGED <<mbc_ram_enabled, ram_rom_bank_number, sram>>
       ELSE IF addr <= \h5FFF
       THEN /\ ram_rom_bank_number' = val
            /\ pc' = "run"
            /\ UNCHANGED <<mbc_ram_enabled, rom_bank_number, sram>>
       ELSE IF addr <= \h7FFF
       THEN /\ pc' = "run"
            /\ UNCHANGED <<mbc_ram_enabled, rom_bank_number, ram_rom_bank_number, sram>>
       ELSE IF addr >= \hA000 /\ addr <= \hBFFF
       THEN /\ mbc_write_sram(addr, val)
            /\ UNCHANGED <<mbc_ram_enabled, rom_bank_number, ram_rom_bank_number>>
       ELSE /\ pc' = "panic"
            /\ UNCHANGED <<mbc_ram_enabled, rom_bank_number, ram_rom_bank_number, sram>>

\* mutant: the copy starts one byte late
dma_step_off_by_one(r, source, i) ==
    IF ~r.ok THEN r
    ELSE LET b == read_in(boot_rom_mounted, r.oam, source + i + 1)
         IN  IF b = PANIC THEN [r EXCEPT !.ok = FALSE]
             ELSE [r EXCEPT !.oam[i] = b]

\* iteration i of oam_dma_transfer's loop, on r = [ok, oam]: the OAM contents
\* so far, ok false once a read has panicked
dma_step(r, source, i) ==
    IF ~r.ok THEN r
    ELSE LET b == read_in(boot_rom_mounted, r.oam, source + i)
         IN  IF b = PANIC THEN [r EXCEPT !.ok = FALSE]
             ELSE [r EXCEPT !.oam[i] = b]

\* the iterations i = lo, lo+1, .., hi of `for i in 0..0xA0`
RECURSIVE dma_loop(_, _, _, _)
dma_loop(r, source, lo, hi) ==
    IF lo = hi THEN dma_step(r, source, lo)
    ELSE LET mid == (lo + hi) \div 2
         IN  CHOOSE out \in {dma_loop(left, source, mid + 1, hi) :
                                left \in {dma_loop(r, source, lo, mid)}} : TRUE

\* fn oam_dma_transfer
oam_dma_transfer(source) ==
    \E r \in {dma_loop([ok |-> TRUE, oam |-> oam], source, 0, \hA0 - 1)} :
        /\ oam' = r.oam
        /\ pc' = IF r.ok THEN "run" ELSE "panic"

\* ppu.write_registers and timer.write_registers (ppu.rs, timer.rs): STAT and
\* LYC are the fields the bus samples, LY is read-only, the rest are stores
ppu_write_registers(addr, val) ==
    ppu' = IF addr = \hFF41 THEN [ppu EXCEPT !.stat = val]
           ELSE IF addr = \hFF45 THEN [ppu EXCEPT !.lyc = val]
           ELSE IF addr = \hFF44 THEN ppu
           ELSE [ppu EXCEPT !.regs = Put(@, addr, val)]
timer_write_registers(addr, val) ==
    timer' = [timer EXCEPT !.regs = Put(@, addr, val)]

\* mutant: a write with bit 0 clear maps the boot ROM again
boot_latch_rearm(val) == BitAnd(val, \h1) = 0

\* the arm 0xFF50 of write: boot_rom_mounted afterwards
boot_latch(val) == IF BitAnd(val, \h1) = 1 THEN FALSE ELSE boot_rom_mounted

\* mutant: a cartridge without an MBC is written as an MBC1
cart_write_as_mbc1(addr, val) ==
    IF memory_bank = "MBC3" THEN mbc3_write(addr, val) ELSE mbc1_write(addr, val)

\* the arms 0x0000..=0x7FFF and 0xA000..=0xBFFF of write
cart_write(addr, val) ==
    IF memory_bank = "MBC1" THEN mbc1_write(addr, val)
    ELSE IF memory_bank = "MBC3" THEN mbc3_write(addr, val)
    ELSE pc' = "run" /\ UNCHANGED bus_vars

\* Memory::write
write(addr, val) ==
    IF addr <= \h7FFF \/ (addr >= \hA000 /\ addr <= \hBFFF)
    THEN cart_write(addr, val)
    ELSE IF addr >= \h8000 /\ addr <= \h9FFF
    THEN /\ vram' = Put(vram, addr - \h8000, val)
         /\ pc' = "run"
         /\ UNCHANGED <<cart_vars, mbc_vars, boot_rom_mounted, io_vars, sram,
                        wram, hram, oam>>
    ELSE IF addr >= \hC000 /\ addr <= \hDFFF
    THEN /\ wram' = Put(wram, addr - \hC000, val)
         /\ pc' = "run"
         /\ UNCHANGED <<cart_vars, mbc_vars, boot_rom_mounted, io_vars, sram,
                        vram, hram, oam>>
    ELSE IF addr >= \hFE00 /\ addr <= \hFE9F
    THEN /\ oam' = [oam EXCEPT ![addr - \hFE00] = val]
         /\ pc' = "run"
         /\ UNCHANGED <<cart_vars, mbc_vars, boot_rom_mounted, io_vars, sram,
                        wram, vram, hram>>
    ELSE IF addr = \hFF00
    THEN /\ joyp' = val
         /\ pc' = "run"
         /\ UNCHANGED <<cart_vars, mbc_vars, boot_rom_mounted, ram_vars, reg_IE,
                        reg_IF, keypress, ppu, timer>>
    ELSE IF addr >= \hFF04 /\ addr <= \hFF07
    THEN /\ timer_write_registers(addr, val)
         /\ pc' = "run"
         /\ UNCHANGED <<cart_vars, mbc_vars, boot_rom_mounted, ram_vars, reg_IE,
                        reg_IF, keypress, joyp, ppu>>
    ELSE IF addr = \hFF0F
    THEN /\ reg_IF' = val
         /\ pc' = "run"
         /\ UNCHANGED <<cart_vars, mbc_vars, boot_rom_mounted, ram_vars, reg_IE,
                        keypress, joyp, ppu, timer>>
    ELSE IF addr = \hFF46
    THEN /\ oam_dma_transfer(Shl(val, 8))
         /\ UNCHANGED <<cart_vars, mbc_vars, boot_rom_mounted, io_vars, sram,
                        wram, vram, hram>>
    ELSE IF addr >= \hFF40 /\ addr <= \hFF4B
    THEN /\ ppu_write_registers(addr, val)
         /\ pc' = "run"
         /\ UNCHANGED <<cart_vars, mbc_vars, boot_rom_mounted, ram_vars, reg_IE,
                        reg_IF, keypress, joyp, timer>>
    ELSE IF addr = \hFF50
    THEN /\ boot_rom_mounted' = boot_latch(val)
         /\ pc' = "run"
         /\ UNCHANGED <<cart_vars, mbc_vars, ram_vars, io_vars>>
    ELSE IF addr >= \hFF80 /\ addr <= \hFFFE
    THEN /\ hram' = Put(hram, addr - \hFF80, val)
         /\ pc' = "run"
         /\ UNCHANGED <<cart_vars, mbc_vars, boot_rom_mounted, io_vars, sram,
                        wram, vram, oam>>
    ELSE IF addr = \hFFFF
    THEN /\ reg_IE' = val
         /\ pc' = "run"
         /\ UNCHANGED <<cart_vars, mbc_vars, boot_rom_mounted, ram_vars, reg_IF,
                        keypress, joyp, ppu, timer>>
    ELSE pc' = "run" /\ UNCHANGED bus_vars

\* ------------------------------------------------------------ bus steps

\* a CPU read of addr
Read(addr) ==
    /\ pc = "run"
    /\ op' = [kind |-> "read", addr |-> addr, val |-> 0]
    /\ LET r == read(addr)
       IN  IF r = PANIC
           THEN pc' = "panic" /\ ret' = 0
           ELSE pc' = "run" /\ ret' = r
    /\ UNCHANGED <<bus_vars, last_ctl, save_vars>>

\* a CPU write of val to addr
Write(addr, val) ==
    /\ pc = "run"
    /\ op' = [kind |-> "write", addr |-> addr, val |-> val]
    /\ last_ctl' = IF addr <= \h7FFF
                   THEN [last_ctl EXCEPT ![addr \div \h2000] = val,
                                          ![4 + addr \div \h2000] = 1]
                   ELSE last_ctl
    /\ write(addr, val)
    /\ ret' = 0
    /\ UNCHANGED save_vars

\* the host stores k in the pub field keypress
set_keypress(k) ==
    /\ pc = "run"
    /\ keypress' = k
    /\ op' = [kind |-> "set_keypress", addr |-> 0, val |-> k]
    /\ ret' = 0
    /\ UNCHANGED <<pc, cart_vars, mbc_vars, boot_rom_mounted, ram_vars, reg_IE,
                   reg_IF, joyp, ppu, timer, last_ctl, save_vars>>

\* ------------------------------------------------------------ machine cycle

\* ppu.update() (ppu.rs): the PPU moves to any STAT mode and scanline and may
\* raise (clear) or keep either edge flag; the STAT enable bits stay
ppu_update ==
    \E mode \in 0..3, line \in LyVals, vb \in BOOLEAN, sb \in BOOLEAN :
        ppu' = [ppu EXCEPT !.stat = (ppu.stat - (ppu.stat % 4)) + mode,
                           !.ly = line,
                           !.vblank_irq_triggered = vb,
                           !.stat_irq_triggered = sb]

\* timer.update() (timer.rs): a TIMA overflow arms the delayed interrupt
timer_update ==
    \E overflow \in BOOLEAN :
        timer' = IF overflow THEN [timer EXCEPT !.tima_irq = 2] ELSE timer

\* pub fn update_components
update_components ==
    /\ pc = "run"
    /\ op' = [kind |-> "update_components", addr |-> 0, val |-> 0]
    /\ ret' = 0
    /\ ppu_update
    /\ timer_update
    /\ UNCHANGED <<pc, cart_vars, mbc_vars, boot_rom_mounted, ram_vars, reg_IE,
                   reg_IF, keypress, joyp, last_ctl, save_vars>>

\* the four STAT conditions of update_requested_interrupts
stat_condition ==
    \/ Bit(ppu.stat, 6) = 1 /\ ppu.ly = ppu.lyc
    \/ Bit(ppu.stat, 5) = 1 /\ BitAnd(ppu.stat, \h3) = 2
    \/ Bit(ppu.stat, 4) = 1 /\ BitAnd(ppu.stat, \h3) = 1
    \/ Bit(ppu.stat, 3) = 1 /\ BitAnd(ppu.stat, \h3) = 0

\* mutant: the timer interrupt is latched without the one-call delay
irq_requests_no_delay ==
    BitOr(BitOr(IF ~ppu.vblank_irq_triggered THEN 1 ELSE 0,
                IF ~ppu.stat_irq_triggered /\ stat_condition THEN 2 ELSE 0),
          IF timer.tima_irq > 0 THEN 4 ELSE 0)

\* the local `requests` of update_requested_interrupts
irq_requests ==
    BitOr(BitOr(IF ~ppu.vblank_irq_triggered THEN 1 ELSE 0,
                IF ~ppu.stat_irq_triggered /\ stat_condition THEN 2 ELSE 0),
          IF timer.tima_irq > 0 /\ timer.tima_irq - 1 = 0 THEN 4 ELSE 0)

\* mutant: `self.IF = requests`
latched_IF_assign == irq_requests

\* `self.IF |= requests`
latched_IF == BitOr(reg_IF, irq_requests)

\* pub fn update_requested_interrupts
update_requested_interrupts ==
    /\ pc = "run"
    /\ op' = [kind |-> "update_requested_interrupts", addr |-> 0, val |-> 0]
    /\ ret' = 0
    /\ ppu' = [ppu EXCEPT !.vblank_irq_triggered = TRUE,
                          !.stat_irq_triggered = TRUE]
    /\ timer' = IF timer.tima_irq > 0
                THEN [timer EXCEPT !.tima_irq = @ - 1]
                ELSE timer
    /\ reg_IF' = latched_IF
    /\ UNCHANGED <<pc, cart_vars, mbc_vars, boot_rom_mounted, ram_vars, reg_IE,
                   keypress, joyp, last_ctl, save_vars>>

\* ------------------------------------------------------------ save state

\* the most calls of aggregate_buffers a run makes (each call appends to
\* bess_buffer_offsets)
MaxSaves == 1

\* crate::u32_to_little_endian
u32_to_little_endian(x) ==
    << x % 256, (x \div 256) % 256, (x \div 65536) % 256, (x \div 16777216) % 256 >>

\* the lengths of the fixed arrays wram, ppu.vram, ppu.oam and hram
WramLen == \h2000
VramLen == \h2000
OamLen == \hA0
HramLen == \h7F

\* ppu.oam as a byte buffer
oam_bytes == [i \in {k \in DOMAIN oam : oam[k] # 0} |-> oam[i]]

\* one buffer of aggregate_buffers, on a = [table, blob]: the size and the
\* offset go to the table, the n bytes of buf to the end of the blob
aggregate_step(a, buf, n) ==
    [table |-> a.table \o u32_to_little_endian(n)
                       \o u32_to_little_endian(a.blob.len),
     blob  |-> [len |-> a.blob.len + n,
                bytes |-> [j \in DOMAIN a.blob.bytes
                                   \cup {a.blob.len + i : i \in DOMAIN buf} |->
                              IF j \in DOMAIN a.blob.bytes THEN a.blob.bytes[j]
                              ELSE buf[j - a.blob.len]]]]

\* pub fn aggregate_buffers
aggregate_buffers ==
    /\ pc = "run"
    /\ Len(bess_buffer_offsets) < MaxSaves * 56
    /\ op' = [kind |-> "aggregate_buffers", addr |-> 0, val |-> 0]
    /\ ret' = 0
    /\ LET a0 == [table |-> bess_buffer_offsets,
                  blob |-> [len |-> 0, bytes |-> Zeroed]]
           a1 == aggregate_step(a0, wram, WramLen)
           a2 == aggregate_step(a1, vram, VramLen)
           a3 == aggregate_step(a2, sram.bytes, sram.len)
           a4 == aggregate_step(a3, oam_bytes, OamLen)
           a5 == aggregate_step(a4, hram, HramLen)
           a6 == aggregate_step(a5, Zeroed, 0)
           a7 == aggregate_step(a6, Zeroed, 0)
       IN  /\ bess_buffer_offsets' = a7.table
           /\ buffers' = a7.blob
    /\ UNCHANGED <<pc, bus_vars, last_ctl, bess_block, origin>>

\* pub fn propogate_buffers: the body is empty
propogate_buffers ==
    /\ pc = "run"
    /\ op' = [kind |-> "propogate_buffers", addr |-> 0, val |-> 0]
    /\ ret' = 0
    /\ UNCHANGED <<pc, bus_vars, last_ctl, save_vars>>

\* pub fn create_bess_mbc_block: the bytes of Some(..), none for None
create_bess_mbc_block ==
    IF memory_bank = "MBC1"
    THEN << \h00, \h00, IF mbc_ram_enabled THEN \h0A ELSE \h00,
            \h00, \h20, rom_bank_number,
            \h00, \h40, ram_rom_bank_number,
            \h00, \h60, IF banking_mode = "ADVANCED" THEN 1 ELSE 0 >>
    ELSE IF memory_bank = "MBC3"
    THEN << \h00, \h00, IF mbc_ram_enabled THEN \h0A ELSE \h00,
            \h00, \h20, rom_bank_number,
            \h00, \h40, ram_rom_bank_number,
            \h00, \h60, \h00,
            \h00, \hA0, \h00 >>
    ELSE << >>

\* the host takes the control block of this instance and constructs a new
\* Memory (Memory::default()) to replay it on
new_memory ==
    /\ pc = "run"
    /\ origin = << >>
    /\ memory_bank \in {"MBC1", "MBC3"}
    /\ bess_block' = create_bess_mbc_block
    /\ origin' = << [file |-> rom_chip.file,
                     mbc_ram_enabled |-> mbc_ram_enabled,
                     rom_bank_number |-> rom_bank_number,
                     ram_rom_bank_number |-> ram_rom_bank_number,
                     banking_mode |-> banking_mode] >>
    /\ op' = [kind |-> "new_memory", addr |-> 0, val |-> 0]
    /\ ret' = 0
    /\ pc' = "new"
    /\ rom_chip' = [file |-> NoCart, len |-> 0]
    /\ boot_rom' = "zero"
    /\ sram' = [len |-> 0, bytes |-> Zeroed]
    /\ wram' = Zeroed
    /\ hram' = Zeroed
    /\ mbc_ram_enabled' = FALSE
    /\ boot_rom_mounted' = FALSE
    /\ memory_bank' = "MBCNONE"
    /\ banking_mode' = "SIMPLE"
    /\ rom_bank_number' = 0
    /\ ram_rom_bank_number' = 0
    /\ reg_IE' = 0
    /\ reg_IF' = 0
    /\ keypress' = -1
    /\ joyp' = 0
    /\ vram' = Zeroed
    /\ oam' = [i \in 0..(\hA0 - 1) |-> 0]
    /\ ppu' = [stat |-> 0, ly |-> 0, lyc |-> 0, vblank_irq_triggered |-> TRUE,
               stat_irq_triggered |-> TRUE, regs |-> Zeroed]
    /\ timer' = [tima_irq |-> 0, regs |-> Zeroed]
    /\ last_ctl' = [r \in 0..7 |-> 0]
    /\ bess_buffer_offsets' = << >>
    /\ buffers' = [len |-> 0, bytes |-> Zeroed]

\* the next record of the control block, an LE-16 address and a value, is
\* replayed as write(address, value)
replay_step ==
    /\ pc = "run"
    /\ origin # << >>
    /\ Len(bess_block) >= 3
    /\ LET addr == bess_block[1] + 256 * bess_block[2]
           val  == bess_block[3]
       IN  /\ op' = [kind |-> "replay", addr |-> addr, val |-> val]
           /\ last_ctl' = IF addr <= \h7FFF
                          THEN [last_ctl EXCEPT ![addr \div \h2000] = val,
                                          ![4 + addr \div \h2000] = 1]
                          ELSE last_ctl
           /\ write(addr, val)
    /\ bess_block' = SubSeq(bess_block, 4, Len(bess_block))
    /\ ret' = 0
    /\ UNCHANGED <<bess_buffer_offsets, buffers, origin>>

\* ------------------------------------------------------------ inputs

\* cartridge files: [len, mbc, ram, logo]
CartNone32K  == [len |-> \h8000,   mbc |-> \h00, ram |-> \h00, logo |-> -1]
CartMbc1Big  == [len |-> \h200000, mbc |-> \h03, ram |-> \h03, logo |-> -1]
CartMbc1     == [len |-> \h40000,  mbc |-> \h03, ram |-> \h02, logo |-> -1]
CartMbc1Odd  == [len |-> \hC000,   mbc |-> \h01, ram |-> \h02, logo |-> -1]
CartMbc3     == [len |-> \h100000, mbc |-> \h13, ram |-> \h03, logo |-> -1]
CartMbc5     == [len |-> \h8000,   mbc |-> \h19, ram |-> \h00, logo |-> -1]
CartMulti      == [len |-> \h80000, mbc |-> \h01, ram |-> \h00, logo |-> \h40104]
CartMultiStart == [len |-> \h80000, mbc |-> \h01, ram |-> \h00, logo |-> \h40000]
CartMbc1NoRam  == [len |-> \h8000,  mbc |-> \h01, ram |-> \h00, logo |-> -1]
CartMbc3NoRam  == [len |-> \h8000,  mbc |-> \h0F, ram |-> \h00, logo |-> -1]

\* SpecMbc: the cartridge windows (ROM banks, control registers, SRAM)
MbcCarts == {CartNone32K, CartMbc1Big, CartMbc1, CartMbc1Odd, CartMbc3,
             CartMbc5}
MbcReadAddrs == {\h0000, \h0100, \h3FFF, \h4000, \h7FFF, \hA000, \hBFFF}
MbcWrites ==
    ({\h0000} \X {\h00, \h0A}) \cup
    ({\h2100} \X {\h00, \h05, \h20}) \cup
    ({\h4000} \X {\h00, \h06}) \cup
    ({\h6000} \X {\h00, \h01}) \cup
    ({\hA000} \X {\h42, \h17}) \cup
    ({\hBFFF} \X {\h42})

MbcLoad == \E c \in MbcCarts : load_cartridge(c)
MbcRead == \E a \in MbcReadAddrs : Read(a)
MbcWrite == \E w \in MbcWrites : Write(w[1], w[2])

NextMbc == MbcLoad \/ MbcRead \/ MbcWrite
SpecMbc == Init /\ [][NextMbc]_vars

\* SpecLatch: the boot-ROM latch under every kind of bus operation
LatchReadAddrs == {\h0000, \hFF50}
LatchWrites == {\hFF50} \X {\h00, \h01, \h02, \h03}
LatchLoad == load_cartridge(CartNone32K)
LatchRead == \E a \in LatchReadAddrs : Read(a)
LatchWrite == \E w \in LatchWrites : Write(w[1], w[2])

NextLatch == mount_bootrom \/ LatchLoad \/ LatchRead \/ LatchWrite
                \/ update_components \/ update_requested_interrupts
SpecLatch == Init /\ [][NextLatch]_vars

\* SpecBoot: the boot-ROM overlay over each cartridge kind
BootCarts == {CartNone32K, CartMbc1, CartMbc3}
BootReadAddrs == {\h0000, \h00FF, \h0100, \h4000, \hC000, \hFF50}
BootWrites ==
    ({\hFF50} \X {\h00, \h01}) \cup
    ({\h2100} \X {\h05}) \cup
    ({\h4000} \X {\h01}) \cup
    ({\h6000} \X {\h01}) \cup
    ({\hC000} \X {\h11})
BootLoad == \E c \in BootCarts : load_cartridge(c)
BootRead == \E a \in BootReadAddrs : Read(a)
BootWrite == \E w \in BootWrites : Write(w[1], w[2])

NextBoot == mount_bootrom \/ BootLoad \/ BootRead \/ BootWrite
SpecBoot == Init /\ [][NextBoot]_vars

\* SpecDma: the OAM DMA burst from each region of the address space
DmaCarts == {CartMbc1, CartMbc3}
DmaPages == {\h00, \h40, \hA0, \hC0, \hFE}
DmaReadAddrs == {\hFE00}
DmaWrites ==
    ({\hFF46} \X DmaPages) \cup
    ({\h0000} \X {\h0A}) \cup
    ({\h2100} \X {\h05}) \cup
    ({\h4000} \X {\h04}) \cup
    ({\hC000} \X {\h11}) \cup
    ({\hFF50} \X {\h01})
DmaLoad == \E c \in DmaCarts : load_cartridge(c)
DmaRead == \E a \in DmaReadAddrs : Read(a)
DmaWrite == \E w \in DmaWrites : Write(w[1], w[2])

NextDma == mount_bootrom \/ DmaLoad \/ DmaRead \/ DmaWrite
SpecDma == Init /\ [][NextDma]_vars

\* SpecIrq: the interrupt latch
IrqReadAddrs == {\hFF0F, \hFFFF}
IrqWrites ==
    ({\hFF0F} \X {\h00, \h1F}) \cup
    ({\hFFFF} \X {\h05}) \cup
    ({\hFF41} \X {\h40, \h20, \h18}) \cup
    ({\hFF10} \X {\hFF})
IrqLoad == load_cartridge(CartNone32K)
IrqRead == \E a \in IrqReadAddrs : Read(a)
IrqWrite == \E w \in IrqWrites : Write(w[1], w[2])

NextIrq == IrqLoad \/ IrqRead \/ IrqWrite
              \/ update_components \/ update_requested_interrupts
SpecIrq == Init /\ [][NextIrq]_vars

\* SpecSave: the save-state buffers
SaveReadAddrs == {\hC000}
SaveWrites ==
    ({\h0000} \X {\h0A}) \cup
    ({\hA000} \X {\h00, \h42}) \cup
    ({\hC000} \X {\h00, \h11}) \cup
    ({\h8000} \X {\h00, \h22}) \cup
    ({\hFE00} \X {\h00, \h33}) \cup
    ({\hFF80} \X {\h00, \h44})
SaveLoad == load_cartridge(CartMbc1)
SaveRead == \E a \in SaveReadAddrs : Read(a)
SaveWrite == \E w \in SaveWrites : Write(w[1], w[2])

NextSave == SaveLoad \/ SaveRead \/ SaveWrite
               \/ aggregate_buffers \/ propogate_buffers
SpecSave == Init /\ [][NextSave]_vars

\* SpecReplay: the MBC control block, taken and replayed on a new instance
ReplayCarts == {CartMbc1, CartMbc3}
ReplayReadAddrs == {\h4000}
ReplayWrites ==
    ({\h0000} \X {\h0A, \h00}) \cup
    ({\h2100} \X {\h00, \h05}) \cup
    ({\h4000} \X {\h02, \h05}) \cup
    ({\h6000} \X {\h01}) \cup
    ({\hA000} \X {\h42})
ReplayLoad ==
    \E c \in ReplayCarts :
        /\ IF origin = << >> THEN TRUE ELSE origin[1].file = c
        /\ load_cartridge(c)
ReplayRead == \E a \in ReplayReadAddrs : Read(a)
ReplayWrite == origin = << >> /\ \E w \in ReplayWrites : Write(w[1], w[2])

NextReplay == ReplayLoad \/ ReplayRead \/ ReplayWrite \/ new_memory \/ replay_step
SpecReplay == Init /\ [][NextReplay]_vars

\* SpecMbc3: the MBC3 registers, ROM windows and SRAM window
Mbc3ReadAddrs == {\h0000, \h3FFF, \h4000, \h7FFF, \hA000, \hA123}
Mbc3Writes ==
    ({\h0000} \X {\h0A, \h00}) \cup
    ({\h2000} \X {\h00, \h7F, \h85}) \cup
    ({\h3FFF} \X {\h20}) \cup
    ({\h4000} \X {\h01, \h03, \h04}) \cup
    ({\h6000} \X {\h01}) \cup
    ({\hA000} \X {\h42}) \cup
    ({\hA123} \X {\h17})
Mbc3Load == load_cartridge(CartMbc3)
Mbc3Read == \E a \in Mbc3ReadAddrs : Read(a)
Mbc3Write == \E w \in Mbc3Writes : Write(w[1], w[2])

NextMbc3 == Mbc3Load \/ Mbc3Read \/ Mbc3Write
SpecMbc3 == Init /\ [][NextMbc3]_vars

\* SpecJoy: the joypad register
JoyKeys == {-1, 0, 1, 2, 3, 4, 5, 6, 7, 8, 9}
JoyReadAddrs == {\hFF00}
JoyWrites == {\hFF00} \X {\h00, \h10, \h20, \h30, \hDF, \hEF, \hCF}
JoyLoad == load_cartridge(CartNone32K)
JoyRead == \E a \in JoyReadAddrs : Read(a)
JoyWrite == \E w \in JoyWrites : Write(w[1], w[2])
JoyPress == \E k \in JoyKeys : set_keypress(k)

NextJoy == JoyLoad \/ JoyRead \/ JoyWrite \/ JoyPress
SpecJoy == Init /\ [][NextJoy]_vars

\* SpecLoad: the cartridges load_cartridge takes and refuses
LoadCarts == {CartNone32K, CartMbc1, CartMbc1Big, CartMbc3, CartMbc5, CartMulti,
              CartMultiStart}
LoadReadAddrs == {\h0000, \h0104, \h4000}
LoadWrites ==
    ({\h0000} \X {\h0A}) \cup
    ({\h2100} \X {\h00, \h10})
LoadLoad == \E c \in LoadCarts : load_cartridge(c)
LoadRead == \E a \in LoadReadAddrs : Read(a)
LoadWrite == \E w \in LoadWrites : Write(w[1], w[2])

NextLoad == LoadLoad \/ LoadRead \/ LoadWrite
SpecLoad == Init /\ [][NextLoad]_vars

\* SpecSram: the SRAM window under every header RAM size of the images
SramCarts == {CartMbc1NoRam, CartMbc1, CartMbc1Big, CartMbc3, CartMbc3NoRam}
SramReadAddrs == {\hA000, \hBFFF}
SramWrites ==
    ({\h0000} \X {\h0A, \h00}) \cup
    ({\h4000} \X {\h00, \h03}) \cup
    ({\h6000} \X {\h00, \h01}) \cup
    ({\hA000} \X {\h42}) \cup
    ({\hBFFF} \X {\h17})
SramLoad == \E c \in SramCarts : load_cartridge(c)
SramRead == \E a \in SramReadAddrs : Read(a)
SramWrite == \E w \in SramWrites : Write(w[1], w[2])

NextSram == SramLoad \/ SramRead \/ SramWrite
SpecSram == Init /\ [][NextSram]_vars

\* ------------------------------------------------------------ properties

IsPow2(n) == \E e \in 0..30 : n = 2 ^ e
InSramWindow(a) == a >= \hA000 /\ a <= \hBFFF
IsRead(lo, hi) == pc = "run" /\ op.kind = "read" /\ op.addr >= lo /\ op.addr <= hi

\* the MBC1 registers as the history of control writes gives them
WrittenUpper == BitAnd(last_ctl[2], \h03)
WrittenBank == IF BitAnd(last_ctl[1], \h1F) = 0 THEN 1 ELSE BitAnd(last_ctl[1], \h1F)
WrittenAdvanced == BitAnd(last_ctl[3], \h01) = 1

\* C1: on an MBC1 cartridge a read of 0x4000+k returns
\* ROM[((upper << 19) | (bank << 14) | k) & (len-1)], upper and bank being the
\* last values written to 0x4000-0x5FFF and 0x2000-0x3FFF, masked, bank 0 read
\* as 1; with bank register 0 and upper 0 on an image whose length is a power
\* of two of at least 32 KiB that byte is ROM[0x4000+k].
C1_HighWindow ==
    (IsRead(\h4000, \h7FFF) /\ memory_bank = "MBC1") =>
        LET k == op.addr - \h4000
            offset == WrittenUpper * \h80000 + WrittenBank * \h4000 + k
        IN  /\ ret = CartByte(rom_chip.file, BitAnd(offset, rom_chip.file.len - 1))
            /\ (/\ BitAnd(last_ctl[1], \h1F) = 0
                /\ WrittenUpper = 0
                /\ IsPow2(rom_chip.file.len)
                /\ rom_chip.file.len >= \h8000)
               => ret = CartByte(rom_chip.file, \h4000 + k)

C1_Witness ==
    /\ IsRead(\h4000, \h4000) /\ memory_bank = "MBC1"
    /\ rom_chip.file = CartMbc1Big
    /\ last_ctl[1] = \h05 /\ last_ctl[2] = \h06
    /\ ret = CartByte(CartMbc1Big, 2 * \h80000 + 5 * \h4000)

\* C2: on an MBC1 cartridge with the boot ROM unmounted a read of addr in
\* 0x0000-0x3FFF returns ROM[addr & (len-1)] in Simple mode, whatever was
\* written to the bank registers, and ROM[((upper << 19) | addr) & (len-1)] in
\* Advanced mode.
C2_LowWindow ==
    (IsRead(\h0000, \h3FFF) /\ memory_bank = "MBC1" /\ ~boot_rom_mounted) =>
        LET offset == IF WrittenAdvanced
                      THEN WrittenUpper * \h80000 + op.addr
                      ELSE op.addr
        IN  ret = CartByte(rom_chip.file, BitAnd(offset, rom_chip.file.len - 1))

C2_Witness ==
    /\ IsRead(\h0100, \h0100) /\ memory_bank = "MBC1"
    /\ rom_chip.file = CartMbc1Big
    /\ last_ctl[2] = \h06 /\ last_ctl[3] = \h00 /\ last_ctl[1] = \h05
    /\ ret = CartByte(CartMbc1Big, \h0100)

\* C3: on an MBC1 cartridge with 32 KiB of SRAM and RAM enabled, a read at
\* 0xA000+k returns sram[upper*0x2000 + k] in Advanced mode and sram[k] in
\* Simple mode, and a write there changes that one byte and no other.
C3_Index(addr) ==
    (IF WrittenAdvanced THEN WrittenUpper * \h2000 ELSE 0) + (addr - \hA000)
C3_Cart == memory_bank = "MBC1" /\ sram.len = \h8000 /\ mbc_ram_enabled
C3_Read ==
    (IsRead(\hA000, \hBFFF) /\ C3_Cart) => ret = Get(sram.bytes, C3_Index(op.addr))
C3_Write ==
    (pc = "run" /\ C3_Cart /\ op'.kind = "write" /\ InSramWindow(op'.addr)) =>
        /\ pc' = "run"
        /\ sram'.len = sram.len
        /\ \A j \in DOMAIN sram.bytes \cup DOMAIN sram'.bytes \cup {C3_Index(op'.addr)} :
              Get(sram'.bytes, j) =
                  IF j = C3_Index(op'.addr) THEN op'.val ELSE Get(sram.bytes, j)
C3_SramBanks == [][C3_Read' /\ C3_Write]_vars

C3_Witness ==
    /\ IsRead(\hA000, \hA000) /\ C3_Cart
    /\ banking_mode = "ADVANCED" /\ ram_rom_bank_number = 2
    /\ Get(sram.bytes, 2 * \h2000) = \h42
    /\ Get(sram.bytes, 0) = \h17
    /\ ret = \h42

\* C4: on MBC1 and MBC3 a write to 0xA000-0xBFFF while RAM is disabled changes
\* no bus state, SRAM included.
C4_DroppedWrite ==
    [][(/\ pc = "run"
        /\ memory_bank \in {"MBC1", "MBC3"}
        /\ ~mbc_ram_enabled
        /\ op'.kind = "write" /\ InSramWindow(op'.addr))
       => (pc' = "run" /\ UNCHANGED bus_vars)]_vars

C4_Witness ==
    /\ pc = "run" /\ memory_bank = "MBC3" /\ ~mbc_ram_enabled
    /\ op = [kind |-> "write", addr |-> \hA000, val |-> \h42]
    /\ Get(sram.bytes, 0) = \h17

\* C5: a read of 0xA000-0xBFFF while RAM is disabled returns 0xFF on every
\* cartridge kind.
C5_DisabledReadsFF ==
    (/\ pc \in {"run", "panic"}
     /\ op.kind = "read" /\ InSramWindow(op.addr)
     /\ ~mbc_ram_enabled)
    => (pc = "run" /\ ret = \hFF)

\* C6: once a write to 0xFF50 with bit 0 set has happened the boot ROM is
\* unmounted, and no read, write, update_components or
\* update_requested_interrupts mounts it again.
C6_UnmapMonotonic ==
    [][/\ (/\ pc = "run"
           /\ op'.kind = "write" /\ op'.addr = \hFF50 /\ op'.val % 2 = 1)
          => ~boot_rom_mounted'
       /\ (pc = "run" /\ ~boot_rom_mounted) => ~boot_rom_mounted']_vars

C6_Witness ==
    /\ pc = "run" /\ boot_rom = "image" /\ ~boot_rom_mounted
    /\ op = [kind |-> "write", addr |-> \hFF50, val |-> \h02]

\* C7: while the boot ROM is mounted, reads of 0x0000-0x00FF return the boot
\* image and read(0xFF50) returns 1, every other read is what it would be
\* unmounted, and a write to 0xFF50 with bit 0 clear leaves it mounted; once
\* unmounted the 256 addresses return the cartridge ROM byte the MBC selects
\* and read(0xFF50) returns 0.
C7_RomByte(addr) ==
    LET offset == IF memory_bank = "MBC1" /\ banking_mode = "ADVANCED"
                  THEN ram_rom_bank_number * \h80000 + addr
                  ELSE addr
    IN  CartByte(rom_chip.file, BitAnd(offset, rom_chip.file.len - 1))
C7_Reads ==
    /\ (IsRead(\h0000, \h00FF) /\ boot_rom_mounted) => ret = BootByte(op.addr)
    /\ IsRead(\hFF50, \hFF50) => ret = (IF boot_rom_mounted THEN 1 ELSE 0)
    /\ (IsRead(\h0100, \hFFFF) /\ op.addr # \hFF50 /\ boot_rom_mounted)
       => ret = read_in(FALSE, oam, op.addr)
    /\ (IsRead(\h0000, \h00FF) /\ ~boot_rom_mounted) => ret = C7_RomByte(op.addr)
C7_Keep ==
    (/\ pc = "run" /\ boot_rom_mounted
     /\ op'.kind = "write" /\ op'.addr = \hFF50 /\ op'.val % 2 = 0)
    => boot_rom_mounted'
C7_Overlay == [][C7_Reads' /\ C7_Keep]_vars

C7_Witness ==
    /\ IsRead(\h00FF, \h00FF) /\ boot_rom_mounted /\ memory_bank = "MBC1"
    /\ ret = BootByte(\hFF)
    /\ ret # CartByte(rom_chip.file, \hFF)

\* C8: a write of v to 0xFF46 leaves in OAM byte i, for every i in 0..159,
\* what read((v << 8) + i) returned (the same byte whether read before the
\* burst or after it), and changes nothing but OAM; the write is fatal only
\* when one of those 160 reads is.
C8_Dma ==
    [][\A v \in DmaPages :
          (/\ pc = "run"
           /\ op' = [kind |-> "write", addr |-> \hFF46, val |-> v])
          => /\ pc' = "run" <=> \A i \in 0..159 : read(v * 256 + i) # PANIC
             /\ pc' = "run" =>
                   /\ \A i \in 0..159 : oam'[i] = read(v * 256 + i)
                   /\ \A i \in 0..159 :
                         oam'[i] = read_in(boot_rom_mounted, oam', v * 256 + i)
                   /\ UNCHANGED <<rom_chip, boot_rom, sram, wram, hram,
                                  mbc_ram_enabled, boot_rom_mounted, memory_bank,
                                  banking_mode, rom_bank_number,
                                  ram_rom_bank_number, reg_IE, reg_IF, keypress,
                                  joyp, vram, ppu, timer>>]_vars

C8_Witness ==
    /\ pc = "run" /\ memory_bank = "MBC1"
    /\ op = [kind |-> "write", addr |-> \hFF46, val |-> \h40]
    /\ rom_bank_number = 5
    /\ oam[0] = CartByte(CartMbc1, 5 * \h4000)
    /\ oam[159] = CartByte(CartMbc1, 5 * \h4000 + 159)

\* C9: update_requested_interrupts sets IF to the old IF with bit 0 added iff
\* vblank_irq_triggered was false, bit 1 added iff stat_irq_triggered was
\* false and one of the four STAT conditions held, bit 2 added iff tima_irq
\* was 1; a positive tima_irq drops by one; IE is unchanged and both edge
\* flags end true.
C9_Latch ==
    [][(pc = "run" /\ op'.kind = "update_requested_interrupts") =>
          LET mode == ppu.stat % 4
              cond == \/ Bit(ppu.stat, 6) = 1 /\ ppu.ly = ppu.lyc
                      \/ Bit(ppu.stat, 5) = 1 /\ mode = 2
                      \/ Bit(ppu.stat, 4) = 1 /\ mode = 1
                      \/ Bit(ppu.stat, 3) = 1 /\ mode = 0
              latched(n) == \/ n = 0 /\ ~ppu.vblank_irq_triggered
                            \/ n = 1 /\ ~ppu.stat_irq_triggered /\ cond
                            \/ n = 2 /\ timer.tima_irq = 1
          IN  /\ \A n \in 0..7 :
                    (Bit(reg_IF', n) = 1) <=> (Bit(reg_IF, n) = 1 \/ latched(n))
              /\ timer'.tima_irq =
                    IF timer.tima_irq > 0 THEN timer.tima_irq - 1 ELSE 0
              /\ reg_IE' = reg_IE
              /\ ppu'.vblank_irq_triggered /\ ppu'.stat_irq_triggered]_vars

C9_Witness ==
    /\ pc = "run" /\ op.kind = "update_requested_interrupts"
    /\ reg_IF = 7 /\ reg_IE = 5 /\ timer.tima_irq = 0

\* C10: an IF bit that is set stays set across update_components,
\* update_requested_interrupts, reads, and writes to any address but 0xFF0F.
C10_Persist ==
    [][(pc = "run" /\ ~(op'.kind = "write" /\ op'.addr = \hFF0F)) =>
          \A n \in 0..7 : Bit(reg_IF, n) = 1 => Bit(reg_IF', n) = 1]_vars

C10_Witness ==
    /\ pc = "run" /\ reg_IF = 7
    /\ op = [kind |-> "write", addr |-> \hFF41, val |-> \h20]

\* C11: after aggregate_buffers and any bus writes, propogate_buffers leaves
\* WRAM, VRAM, SRAM, OAM and HRAM with the contents the blob holds for them at
\* the offsets of the table, that is the contents they had at the save.
C11_Word(k) ==
    LET base == Len(bess_buffer_offsets) - 56 + 4 * k
    IN  bess_buffer_offsets[base + 1] + 256 * bess_buffer_offsets[base + 2]
          + 65536 * bess_buffer_offsets[base + 3]
          + 16777216 * bess_buffer_offsets[base + 4]
C11_Restored(buf, n) ==
    LET size == C11_Word(2 * n)
        off  == C11_Word(2 * n + 1)
    IN  \A i \in DOMAIN buf
                 \cup {j - off : j \in {b \in DOMAIN buffers.bytes :
                                           b >= off /\ b < off + size}} :
            Get(buf, i) = Get(buffers.bytes, off + i)
C11_AllRestored ==
    /\ C11_Restored(wram, 0)
    /\ C11_Restored(vram, 1)
    /\ C11_Restored(sram.bytes, 2)
    /\ C11_Restored(oam_bytes, 3)
    /\ C11_Restored(hram, 4)
C11_RoundTrip ==
    [][(/\ pc = "run" /\ Len(bess_buffer_offsets) > 0
        /\ op'.kind = "propogate_buffers")
       => C11_AllRestored']_vars

\* the save itself is faithful: right after aggregate_buffers the blob holds
\* the five buffers
C11_SaveFaithful == (pc = "run" /\ op.kind = "aggregate_buffers") => C11_AllRestored

\* C12: replaying the records of create_bess_mbc_block in order on a freshly
\* loaded instance of the same MBC1 or MBC3 cartridge gives the ram_enabled,
\* rom_bank_lo, upper and mode of the original, and changes no SRAM byte.
C12_Replay ==
    (origin # << >> /\ op.kind = "replay") =>
        /\ pc = "run"
        /\ sram.bytes = Zeroed
        /\ bess_block = << >> =>
              /\ mbc_ram_enabled = origin[1].mbc_ram_enabled
              /\ rom_bank_number = origin[1].rom_bank_number
              /\ ram_rom_bank_number = origin[1].ram_rom_bank_number
              /\ banking_mode = origin[1].banking_mode

\* C13: once load_cartridge has succeeded len(ROM) is a power of two, and the
\* index offset & (len-1) of a banked read is below len and is offset mod len.
C13_PowerOfTwo ==
    pc = "run" =>
        /\ IsPow2(rom_chip.len)
        /\ \A offset \in {rom_bank_number * \h4000 + k : k \in {0, \h3FFF}} :
              /\ BitAnd(offset, rom_chip.len - 1) < rom_chip.len
              /\ BitAnd(offset, rom_chip.len - 1) = offset % rom_chip.len

\* C14: on a cartridge of kind None a write to 0x0000-0x7FFF changes no bus
\* state, and with the boot ROM unmounted every read of 0x0000-0x7FFF returns
\* the ROM byte at that address, whatever was written before.
C14_Read ==
    (IsRead(\h0000, \h7FFF) /\ memory_bank = "MBCNONE" /\ ~boot_rom_mounted)
    => ret = CartByte(rom_chip.file, op.addr)
C14_Write ==
    (/\ pc = "run" /\ memory_bank = "MBCNONE"
     /\ op'.kind = "write" /\ op'.addr <= \h7FFF)
    => (pc' = "run" /\ UNCHANGED bus_vars)
C14_NoMbc == [][C14_Read' /\ C14_Write]_vars

C14_Witness ==
    /\ IsRead(\h7FFF, \h7FFF) /\ memory_bank = "MBCNONE"
    /\ last_ctl[1] = \h05 /\ last_ctl[3] = \h01
    /\ ret = CartByte(CartNone32K, \h7FFF)

\* C15: on an MBC3 cartridge, once v was written to 0x2000-0x3FFF a read of
\* 0x4000+k returns ROM[((bank << 14) | k) & (len-1)] with bank = 1 for v = 0
\* and v & 0x7F otherwise; a read of addr in 0x0000-0x3FFF returns ROM[addr]
\* whatever bank is selected.
C15_Bank == IF last_ctl[1] = 0 THEN 1 ELSE last_ctl[1] % 128
C15_Mbc3Rom ==
    /\ (IsRead(\h4000, \h7FFF) /\ memory_bank = "MBC3" /\ last_ctl[5] = 1)
       => ret = CartByte(rom_chip.file,
                         BitAnd(C15_Bank * \h4000 + (op.addr - \h4000),
                                rom_chip.file.len - 1))
    /\ (IsRead(\h0000, \h3FFF) /\ memory_bank = "MBC3" /\ ~boot_rom_mounted)
       => ret = CartByte(rom_chip.file, op.addr)

C15_Witness ==
    /\ IsRead(\h4000, \h4000) /\ memory_bank = "MBC3"
    /\ last_ctl[5] = 1 /\ last_ctl[1] = \h7F
    /\ ret = CartByte(CartMbc3, \hFC000)

\* C16: a read of 0xFF00 returns 0x0F with at most one bit cleared: with joyp
\* bit 4 = 0 and bit 5 = 1 bit 2/1/3/0 for keypress 1/2/3/4, with bit 5 = 0
\* and bit 4 = 1 bit 0/1/3/2 for keypress 5/6/7/8, and 0x0F in every other
\* case; joyp is the last value written to 0xFF00 and only its bits 4 and 5
\* count.
C16_Expect ==
    LET sel == (joyp \div 16) % 4
    IN  IF sel = 2 /\ keypress \in 1..4 THEN 15 - 2 ^ (<<2, 1, 3, 0>>[keypress])
        ELSE IF sel = 1 /\ keypress \in 5..8
             THEN 15 - 2 ^ (<<0, 1, 3, 2>>[keypress - 4])
        ELSE 15
C16_Read == IsRead(\hFF00, \hFF00) => ret = C16_Expect
C16_Store ==
    (pc = "run" /\ op'.kind = "write" /\ op'.addr = \hFF00) => joyp' = op'.val
C16_Joypad == [][C16_Read' /\ C16_Store]_vars

C16_Witness ==
    /\ IsRead(\hFF00, \hFF00) /\ keypress = 5 /\ joyp = \hDF /\ ret = \h0E

\* C17: on an MBC3 cartridge a read or a write at 0xA000-0xBFFF is fatal when
\* the last value written to 0x4000-0x5FFF exceeds 3, and is not fatal when
\* it does not.
C17_Rtc ==
    [][(/\ pc = "run" /\ memory_bank = "MBC3"
        /\ op'.kind \in {"read", "write"} /\ InSramWindow(op'.addr))
       => (pc' = "panic" <=> last_ctl[2] > 3)]_vars

\* the read half of C17 alone
C17_RtcRead ==
    [][(/\ pc = "run" /\ memory_bank = "MBC3"
        /\ op'.kind = "read" /\ InSramWindow(op'.addr))
       => (pc' = "panic" <=> last_ctl[2] > 3)]_vars

\* C18: load_cartridge is fatal exactly when header byte 0x0147 is outside
\* {0x00, 0x01..0x03, 0x0F..0x13}, or is 0x01..0x03 and the 48 bytes of the
\* Nintendo logo lie contiguously inside the 16 KiB window at ROM offset
\* 0x10 << 14.
C18_LogoInWindow(c) ==
    /\ c.logo >= \h40000
    /\ c.logo + Len(NINTENDO_LOGO) <= \h44000
    /\ c.logo + Len(NINTENDO_LOGO) <= c.len
C18_Unsupported(c) ==
    \/ c.mbc \notin {\h00} \cup (\h01..\h03) \cup (\h0F..\h13)
    \/ c.mbc \in \h01..\h03 /\ C18_LogoInWindow(c)
C18_LoadFatal ==
    op.kind = "load_cartridge" =>
        /\ pc = "panic" <=> C18_Unsupported(rom_chip.file)
        /\ (pc = "run" /\ rom_chip.file.mbc \in \h01..\h03) => memory_bank = "MBC1"

\* C19: on an MBC1 or MBC3 cartridge of any header RAM size, every access to
\* 0xA000-0xBFFF that reaches the SRAM (RAM enabled, and not the fatal MBC3
\* read with upper > 3) indexes below len(sram) and returns.
C19_SramInBounds ==
    [][(/\ pc = "run" /\ memory_bank \in {"MBC1", "MBC3"}
        /\ op'.kind \in {"read", "write"} /\ InSramWindow(op'.addr)
        /\ mbc_ram_enabled
        /\ ~(memory_bank = "MBC3" /\ op'.kind = "read" /\ ram_rom_bank_number > \h03))
       => (sram_index(op'.addr) < sram.len /\ pc' = "run")]_vars

\* C19 restricted to the images whose header declares 8 KiB or 32 KiB
C19_SizedInBounds ==
    [][(/\ pc = "run" /\ memory_bank \in {"MBC1", "MBC3"}
        /\ rom_chip.file.ram \in {\h02, \h03}
        /\ op'.kind \in {"read", "write"} /\ InSramWindow(op'.addr)
        /\ mbc_ram_enabled
        /\ ~(memory_bank = "MBC3" /\ op'.kind = "read" /\ ram_rom_bank_number > \h03))
       => (sram_index(op'.addr) < sram.len /\ pc' = "run")]_vars

\* C20: on an MBC3 cartridge banking_mode is SIMPLE after every step, writes
\* to 0x6000-0x7FFF included, and an enabled SRAM access at 0xA000 + k with
\* the last value written to 0x4000-0x5FFF at most 3 addresses sram[k]: a
\* read returns it and a write replaces exactly it.
C20_Mbc3Simple ==
    [][/\ memory_bank' = "MBC3" => banking_mode' = "SIMPLE"
       /\ (/\ pc = "run" /\ memory_bank = "MBC3" /\ mbc_ram_enabled
           /\ last_ctl[2] <= \h03 /\ InSramWindow(op'.addr))
          => /\ op'.kind = "read" =>
                    /\ pc' = "run"
                    /\ ret' = Get(sram.bytes, op'.addr - \hA000)
             /\ op'.kind = "write" =>
                    /\ pc' = "run"
                    /\ sram' = [sram EXCEPT
                                   !.bytes = Put(@, op'.addr - \hA000, op'.val)]]_vars

C20_Witness ==
    /\ IsRead(\hA000, \hA000) /\ memory_bank = "MBC3" /\ mbc_ram_enabled
    /\ rom_chip.file.ram = \h03 /\ sram.len = \h8000
    /\ last_ctl[2] = \h03 /\ last_ctl[7] = 1 /\ last_ctl[3] = \h01
    /\ Get(sram.bytes, \h123) = \h17 /\ ret = \h42

====
